---- MODULE Spec2Model ----
(***************************************************************************)
(* Model of package queue (golib/pkg/queue): the typed dispatcher          *)
(* Queue[T], the typed consumer Worker[T] and its Options, on top of the   *)
(* job engine of github.com/gocraft/work (Enqueuer / WorkerPool).          *)
(*                                                                         *)
(* The repository code is translated from src/pkg/queue/*.go.  The engine  *)
(* is a dependency whose code is not part of the repository; its steps     *)
(* (enqueue, claim, acknowledge, retry, dead-letter) follow the contract   *)
(* of sections 3-5 of the specification.                                   *)
(*                                                                         *)
(* json.Unmarshal is taken as one step.  The handler is user code: it may  *)
(* return nil or an error at any moment, whether or not its context is     *)
(* done.                                                                   *)
(***************************************************************************)
EXTENDS Integers, Sequences, FiniteSets, TLC

(***************************************************************************)
(* Bounds of the model.                                                    *)
(***************************************************************************)
MaxJobs   == 2     \* envelopes created by the dispatcher in one behaviour
MaxOps    == 2     \* option functions passed to NewWorker
MaxProcs  == 2     \* goroutines calling into a package at the same time
MaxCalls  == 2     \* calls each of them makes
MaxSubs   == 2     \* Subscribe calls in one behaviour
MaxNotify == 1     \* Notify calls in one behaviour
MaxRetry  == 2     \* largest MaxRetries given to TranslateText
MaxGets   == 3     \* Do calls (and so GetProxy calls) in one behaviour
MaxChecks == 2     \* check functions given to RunServer
MaxConns  == 2     \* connections accepted by the healthz server
OptJobs   == 1     \* envelopes dispatched to a worker made with any options
BurstJobs == 11    \* envelopes dispatched in a burst (one more than the pool
                   \* has goroutines)

(***************************************************************************)
(* Constants of the program.                                               *)
(***************************************************************************)
defaultMaxFails       == 3     \* worker.go
defaultMaxConcurrency == 10    \* worker.go
maxConcurrent         == 10    \* init.go: goroutines of one worker pool
StatusOK              == 200   \* fasthttp.StatusOK
StatusMultipleChoices == 300   \* fasthttp.StatusMultipleChoices
Int32Max              == 2147483647   \* rrProxyProvider.index is an int32

Min(a, b) == IF a < b THEN a ELSE b

(***************************************************************************)
(* The payload type T and pointers to it.  T is a struct with an integer   *)
(* field and a field whose value may be one that encoding/json refuses     *)
(* (nan); new(T) is the zero value.                                        *)
(***************************************************************************)
ZeroT    == [id |-> 0, nan |-> FALSE]
NilPtr   == [nil |-> TRUE, val |-> ZeroT]
Ptr(v)   == [nil |-> FALSE, val |-> v]

\* values the producer passes to WithData
DataInputs == { Ptr([id |-> 1, nan |-> FALSE]),
                Ptr([id |-> 2, nan |-> FALSE]),
                Ptr([id |-> 1, nan |-> TRUE]) }

\* values the producer dispatches with DispatchUnique
UniqueInputs == { Ptr([id |-> 1, nan |-> FALSE]) }

Digit == <<"0", "1", "2", "3", "4", "5", "6", "7", "8", "9">>

\* the JSON text of a T whose id is n
IdJson(n) == "{\"id\":" \o Digit[n + 1] \o "}"

\* json.Marshal(p) for p of type *T
Marshal(p) ==
    IF p.nil THEN [err |-> FALSE, text |-> "null"]
    ELSE IF p.val.nan THEN [err |-> TRUE, text |-> ""]
    ELSE [err |-> FALSE, text |-> IdJson(p.val.id)]

\* Queue.serialize: the error of json.Marshal is dropped
serialize(p) == Marshal(p).text

\* json.Unmarshal(text, &cur) for cur of type *T: the pointer left in cur
Unmarshal(text, cur) ==
    IF text = "null" THEN [err |-> FALSE, ptr |-> NilPtr]
    ELSE IF \E n \in 0 .. 9 : IdJson(n) = text
         THEN LET n == CHOOSE k \in 0 .. 9 : IdJson(k) = text
                  old == IF cur.nil THEN ZeroT ELSE cur.val
              IN  [err |-> FALSE, ptr |-> Ptr([old EXCEPT !.id = n])]
         ELSE [err |-> TRUE, ptr |-> cur]

\* Worker.deserialize(data) with w.payload = cur
deserialize_keepsPayload(data, cur) ==
    [err |-> Unmarshal(data, cur).err, ptr |-> cur]

deserialize(data, cur) == Unmarshal(data, cur)

(***************************************************************************)
(* Options and the option functions (options.go).                          *)
(***************************************************************************)
OptionFns ==
    { [f |-> "WithPriority", n |-> 5] }
    \cup { [f |-> "WithMaxFails", n |-> k] : k \in {0, 1, 2} }
    \cup { [f |-> "WithSkipDead", n |-> 0] }
    \cup { [f |-> "WithMaxConcurrency", n |-> k] : k \in {0, 1, 2} }
    \cup { [f |-> "WithMaxTimeout", n |-> 1] }

WithPriority(o, n)       == [o EXCEPT !.Priority = n]
WithMaxFails(o, n)       == [o EXCEPT !.MaxFails = n]
WithSkipDead(o)          == [o EXCEPT !.SkipDead = TRUE]
WithMaxConcurrency(o, n) == [o EXCEPT !.MaxConcurrency = n]
WithMaxTimeout(o, n)     == [o EXCEPT !.MaxTimeout = n]

ApplyOp(o, op) ==
    CASE op.f = "WithPriority"       -> WithPriority(o, op.n)
      [] op.f = "WithMaxFails"       -> WithMaxFails(o, op.n)
      [] op.f = "WithSkipDead"       -> WithSkipDead(o)
      [] op.f = "WithMaxConcurrency" -> WithMaxConcurrency(o, op.n)
      [] op.f = "WithMaxTimeout"     -> WithMaxTimeout(o, op.n)

RECURSIVE ApplyOps_lastFirst(_, _)
ApplyOps_lastFirst(o, fns) ==
    IF fns = <<>> THEN o
    ELSE ApplyOp(ApplyOps_lastFirst(o, Tail(fns)), Head(fns))

RECURSIVE ApplyOps(_, _)
ApplyOps(o, fns) ==
    IF fns = <<>> THEN o ELSE ApplyOps(ApplyOp(o, Head(fns)), Tail(fns))

\* NewWorker: the defaults, then every option function in argument order
NewWorker(fns) ==
    ApplyOps([Priority |-> 0, MaxFails |-> defaultMaxFails, SkipDead |-> FALSE,
              MaxConcurrency |-> defaultMaxConcurrency, MaxTimeout |-> 0], fns)

\* the argument lists of NewWorker that are explored: a small retry budget,
\* alone or followed by one more option function
OptionLists ==
    LET MF(k) == [f |-> "WithMaxFails", n |-> k] IN
    { <<MF(1)>>,
      <<MF(2), [f |-> "WithMaxConcurrency", n |-> 2]>>,
      <<MF(2), [f |-> "WithMaxConcurrency", n |-> 1],
               [f |-> "WithSkipDead", n |-> 0]>>,
      <<MF(1), [f |-> "WithMaxTimeout", n |-> 1]>>,
      <<MF(2), [f |-> "WithMaxConcurrency", n |-> 1]>>,
      <<MF(1), [f |-> "WithMaxConcurrency", n |-> 0]>>,
      <<MF(1), [f |-> "WithPriority", n |-> 5]>> }

\* Worker.getOptions: only the fields that are set are copied
getOptions_maxFailsPlusOne(o) ==
    [Priority       |-> IF o.Priority > 0 THEN o.Priority ELSE 0,
     MaxFails       |-> IF o.MaxFails > 0 THEN o.MaxFails + 1 ELSE 0,
     SkipDead       |-> IF o.SkipDead THEN o.SkipDead ELSE FALSE,
     MaxConcurrency |-> IF o.MaxConcurrency > 0 THEN o.MaxConcurrency ELSE 0]

getOptions_defaultMaxFails(o) ==
    [Priority       |-> IF o.Priority > 0 THEN o.Priority ELSE 0,
     MaxFails       |-> defaultMaxFails,
     SkipDead       |-> IF o.SkipDead THEN o.SkipDead ELSE FALSE,
     MaxConcurrency |-> IF o.MaxConcurrency > 0 THEN o.MaxConcurrency ELSE 0]

getOptions_noSkipDead(o) ==
    [Priority       |-> IF o.Priority > 0 THEN o.Priority ELSE 0,
     MaxFails       |-> IF o.MaxFails > 0 THEN o.MaxFails ELSE 0,
     SkipDead       |-> FALSE,
     MaxConcurrency |-> IF o.MaxConcurrency > 0 THEN o.MaxConcurrency ELSE 0]

getOptions_noMaxConcurrency(o) ==
    [Priority       |-> IF o.Priority > 0 THEN o.Priority ELSE 0,
     MaxFails       |-> IF o.MaxFails > 0 THEN o.MaxFails ELSE 0,
     SkipDead       |-> IF o.SkipDead THEN o.SkipDead ELSE FALSE,
     MaxConcurrency |-> 0]

getOptions(o) ==
    [Priority       |-> IF o.Priority > 0 THEN o.Priority ELSE 0,
     MaxFails       |-> IF o.MaxFails > 0 THEN o.MaxFails ELSE 0,
     SkipDead       |-> IF o.SkipDead THEN o.SkipDead ELSE FALSE,
     MaxConcurrency |-> IF o.MaxConcurrency > 0 THEN o.MaxConcurrency ELSE 0]

(***************************************************************************)
(* State.                                                                  *)
(***************************************************************************)
VARIABLES
    ops,         \* the option functions NewWorker was called with
    options,     \* Worker.options
    ret,         \* the call that returned, or the fault raised, in the last step
    nextId,      \* next envelope identifier
    pending,     \* store: the queue's list of pending envelopes, oldest first
    retry,       \* store: failed envelopes waiting to be requeued
    dead,        \* store: dead-letter area
    pool,        \* worker pool: "new", "running", "stopping" or "stopped"
    slot,        \* per execution slot: position in the job function, envelope
    wPayload,    \* Worker.payload, shared by all slots of the worker
    est,         \* history: state of every envelope
    fails,       \* history: failCount of every envelope
    calls,       \* history: handler invocations made for every envelope
    trace        \* history: the states every envelope went through

vars == <<options, ret, nextId, pending, retry, dead,
          pool, slot, wPayload, est, fails, calls, trace>>

\* The pool runs maxConcurrent goroutines (execution slots); when fewer
\* envelopes than that can exist, the slots that could never be busy are left
\* out.
Slots  == DOMAIN slot
JobIds == DOMAIN est

(***************************************************************************)
(* State of the other packages.                                            *)
(***************************************************************************)
VARIABLES
    once,        \* redisOnce and queueOnce: done flag and holder of the mutex
    instance,    \* instanceRedis and redisPool
    built,       \* history: clients and pools constructed
    rproc,       \* per goroutine: position in NewClientRedis / instancePool
    returned     \* history: what the calls returned

redisVars == <<once, instance, built, rproc, returned>>

VARIABLES
    observers,   \* subject.observers: topic -> list of observers
    sproc,       \* per goroutine: position in Subscribe
    subscribed,  \* history: the Subscribe calls that returned
    notifier,    \* the goroutine calling Notify: position, topic, list read
    tasks,       \* the goroutines started by Notify
    crashed      \* the process was terminated: "no", or by what

observerVars == <<observers, sproc, subscribed, notifier, tasks, crashed>>

VARIABLES
    tcall,       \* the TranslateText call: position, arguments, locals, result
    tctx         \* its context: done, and when it was cancelled

translateVars == <<tcall, tctx>>

VARIABLES
    provider,    \* the rrProxyProvider: hosts, secret, index
    hproc,       \* per goroutine: position in Do / GetProxy, its locals,
                 \* and what its last call got and returned
    expected,    \* history: (number of GetProxy calls so far) mod len(hosts)
    dos,         \* history: number of Do calls so far
    faulted      \* a GetProxy call panicked (index out of range)

httpsVars == <<provider, hproc, expected, dos, faulted>>

VARIABLES
    checkFuncs,  \* the number of check functions given to RunServer
    listener,    \* "open", "closed", or "nil" when ListenTCP failed
    killed,      \* the flag set by the signal goroutine
    server,      \* RunServer's loop: position, connection, check index
    conns        \* per accepted connection: what was done to it

healthzVars == <<checkFuncs, listener, killed, server, conns>>

\* the state that the operations of package queue leave alone
outside == <<ops, redisVars, observerVars, translateVars, httpsVars,
             healthzVars>>

\* the state that the operations of package redis leave alone
notRedis == <<vars, ops, observerVars, translateVars, httpsVars,
              healthzVars>>

\* the state that the operations of package observer leave alone
notObserver == <<vars, ops, redisVars, translateVars, httpsVars,
                 healthzVars>>

\* the state that TranslateText leaves alone
notTranslate == <<vars, ops, redisVars, observerVars, httpsVars,
                  healthzVars>>

\* the state that the operations of package https leave alone
notHttps == <<vars, ops, redisVars, observerVars, translateVars,
              healthzVars>>

\* the state that the healthz server leaves alone
notHealthz == <<vars, ops, redisVars, observerVars, translateVars,
                httpsVars>>

NoCall == [op |-> "none", err |-> FALSE, dup |-> FALSE, key |-> ""]
NoJob == [id |-> 0, payload |-> "", fails |-> 0, unique |-> FALSE]
IdleSlot == [pc |-> "idle", job |-> NoJob, ctxDone |-> FALSE,
             arg |-> NilPtr, alias |-> FALSE]

\* the job options registered with the pool
jobOpts == getOptions(options)

InFlight == Cardinality({s \in Slots : slot[s].pc # "idle"})

SetState(e, st) ==
    /\ est' = [est EXCEPT ![e] = st]
    /\ trace' = [trace EXCEPT ![e] = Append(@, st)]

\* a worker made by NewWorker with one of the argument lists, on an empty
\* queue that will see n envelopes
QueueInit(lists, n) ==
    /\ ops \in lists
    /\ options = NewWorker(ops)
    /\ ret = NoCall
    /\ nextId = 1
    /\ pending = <<>>
    /\ retry = {}
    /\ dead = {}
    /\ pool = "new"
    /\ slot = [s \in 1 .. Min(n, maxConcurrent) |-> IdleSlot]
    /\ wPayload = Ptr(ZeroT)
    /\ est = [e \in 1 .. n |-> "None"]
    /\ fails = [e \in 1 .. n |-> 0]
    /\ calls = [e \in 1 .. n |-> 0]
    /\ trace = [e \in 1 .. n |-> <<>>]

\* nothing has been called in the other packages
RedisInit ==
    /\ once = [k \in {"redis", "queue"} |-> [done |-> FALSE, m |-> 0]]
    /\ instance = [k \in {"redis", "queue"} |-> [nil |-> TRUE, id |-> 0]]
    /\ built = <<>>
    /\ rproc = [p \in 1 .. MaxProcs |->
                  [pc |-> "idle", k |-> "redis", opts |-> "", n |-> 0]]
    /\ returned = {}

Topics == {"user.created", "order.paid"}

\* The observers that are subscribed: one whose Handle returns, one whose
\* Handle panics, and a nil pointer to an observer type whose methods read
\* the receiver's fields (Handle and Name both panic).
ObserverKinds == {"ok", "panics", "nilptr"}

ObserverInit ==
    /\ observers = [t \in Topics |-> <<>>]
    /\ sproc = [p \in 1 .. MaxProcs |->
                  [pc |-> "idle", topic |-> "", obs |-> "", read |-> <<>>]]
    /\ subscribed = [t \in Topics, o \in ObserverKinds |-> 0]
    /\ notifier = [pc |-> "idle", topic |-> "", list |-> <<>>, i |-> 0,
                   first |-> 0, n |-> 0]
    /\ tasks = <<>>
    /\ crashed = "no"

\* TranslateText has not been called
TranslateInit ==
    /\ tcall = [pc |-> "idle",
                options |-> [nil |-> TRUE, Text |-> "", MaxRetries |-> 0,
                             RetryDelay |-> 0],
                maxRetries |-> 0, retryDelay |-> 0, attempt |-> 0,
                lastErr |-> "", result |-> "", err |-> "",
                outcomes |-> <<>>]
    /\ tctx = [done |-> FALSE, inWait |-> FALSE, made |-> 0]

Int32Min == (-Int32Max) - 1

\* the proxy hosts given to NewRRProxyProvider: a non-empty list
HostLists == {<<"h1">>, <<"h1", "h2">>, <<"h1", "h2", "h3">>}

\* the GetProxy calls made on the provider before the behaviour starts: none,
\* or as many as bring the counter to its largest value but one
EarlierIndexes == {-1, Int32Max - 1}

\* NewRRProxyProvider(hosts, secret), then the earlier calls
NewRRProxyProvider(hosts, secret, index) ==
    [hosts |-> hosts, secret |-> secret, index |-> index]

NoResponse == [failed |-> TRUE, status |-> 0, body |-> ""]
NoCfg == [proxy |-> FALSE, jsonReq |-> "none", jsonResp |-> FALSE]

\* a goroutine that has not called Do
IdleDo == [pc |-> "idle", cfg |-> NoCfg, id |-> 0, want |-> 0, got |-> FALSE,
           host |-> "", secret |-> "", returned |-> FALSE,
           resp |-> NoResponse, err |-> ""]

\* a provider made from one of the host lists, with one of the numbers of
\* earlier calls
HttpsInitWith(lists, indexes) ==
    /\ \E hosts \in lists, index \in indexes :
          /\ provider = NewRRProxyProvider(hosts, "s3cret", index)
          /\ expected = (index + 1) % Len(hosts)
    /\ hproc = [p \in 1 .. MaxProcs |-> IdleDo]
    /\ dos = 0
    /\ faulted = FALSE

HttpsInit == HttpsInitWith(HostLists, EarlierIndexes)

\* RunServer was called with n check functions and is about to accept;
\* ListenTCP succeeded or failed
HealthzInitWith(ns, listeners) ==
    /\ checkFuncs \in ns
    /\ listener \in listeners
    /\ killed = FALSE
    /\ server = [pc |-> "accept", conn |-> 0, i |-> 0]
    /\ conns = <<>>

HealthzInit == HealthzInitWith(0 .. MaxChecks, {"open", "nil"})

\* the other packages when nothing is called in them
OutsideInit ==
    /\ RedisInit
    /\ ObserverInit
    /\ TranslateInit
    /\ HttpsInitWith({<<"h1">>}, {-1})
    /\ HealthzInitWith({0}, {"open"})

Init ==
    /\ QueueInit(OptionLists, MaxJobs)
    /\ OutsideInit

(***************************************************************************)
(* Dispatcher (queue.go).                                                  *)
(***************************************************************************)
\* the uniqueness key is held by a pending envelope of the queue
KeyPending(text) ==
    \E i \in 1 .. Len(pending) : pending[i].unique /\ pending[i].payload = text

\* Enqueuer.Enqueue: a new envelope at the back of the queue
Enqueue(text) ==
    /\ pending' = Append(pending, [id |-> nextId, payload |-> text,
                                   fails |-> 0, unique |-> FALSE])
    /\ nextId' = nextId + 1
    /\ SetState(nextId, "Pending")

\* Enqueuer.EnqueueUnique: nothing is added while an envelope with the key is
\* pending
EnqueueUnique(text) ==
    IF KeyPending(text)
    THEN UNCHANGED <<pending, nextId, est, trace>>
    ELSE /\ pending' = Append(pending, [id |-> nextId, payload |-> text,
                                        fails |-> 0, unique |-> TRUE])
         /\ nextId' = nextId + 1
         /\ SetState(nextId, "Pending")

\* q.WithData(d) followed by q.Dispatch(): the error of Enqueue is returned
Dispatch_viaUnique(d) ==
    /\ nextId \in JobIds
    /\ EnqueueUnique(serialize(d))
    /\ ret' = [op |-> "Dispatch", err |-> FALSE, dup |-> FALSE,
               key |-> serialize(d)]
    /\ UNCHANGED <<outside, options, retry, dead, pool, slot, wPayload, fails, calls>>

Dispatch(d) ==
    /\ nextId \in JobIds
    /\ Enqueue(serialize(d))
    /\ ret' = [op |-> "Dispatch", err |-> FALSE, dup |-> FALSE,
               key |-> serialize(d)]
    /\ UNCHANGED <<outside, options, retry, dead, pool, slot, wPayload, fails, calls>>

\* q.WithData(d) followed by q.DispatchUnique()
DispatchUnique_noSuppression(d) ==
    /\ nextId \in JobIds
    /\ pending' = Append(pending, [id |-> nextId, payload |-> serialize(d),
                                   fails |-> 0, unique |-> TRUE])
    /\ nextId' = nextId + 1
    /\ SetState(nextId, "Pending")
    /\ ret' = [op |-> "DispatchUnique", err |-> FALSE, dup |-> FALSE,
               key |-> serialize(d)]
    /\ UNCHANGED <<outside, options, retry, dead, pool, slot, wPayload, fails, calls>>

DispatchUnique(d) ==
    /\ nextId \in JobIds \/ KeyPending(serialize(d))
    /\ EnqueueUnique(serialize(d))
    /\ ret' = [op |-> "DispatchUnique", err |-> FALSE,
               dup |-> KeyPending(serialize(d)), key |-> serialize(d)]
    /\ UNCHANGED <<outside, options, retry, dead, pool, slot, wPayload, fails, calls>>

(***************************************************************************)
(* Worker (worker.go).                                                     *)
(***************************************************************************)
RunWithContext ==
    /\ pool = "new"
    /\ pool' = "running"
    /\ ret' = NoCall
    /\ UNCHANGED <<outside, options, nextId, pending,
                   retry, dead, slot, wPayload, est, fails, calls, trace>>

\* The engine claims the oldest pending envelope for an idle slot.  The slots
\* are interchangeable goroutines: the idle slot of least index stands for all.
Claim_leavesPending(s) ==
    /\ pool = "running"
    /\ slot[s].pc = "idle"
    /\ \A t \in Slots : t < s => slot[t].pc # "idle"
    /\ pending # <<>>
    /\ jobOpts.MaxConcurrency = 0 \/ InFlight < jobOpts.MaxConcurrency
    /\ LET job == Head(pending) IN
        /\ pending' = pending
        /\ slot' = [slot EXCEPT ![s] = [IdleSlot EXCEPT !.pc = "alloc",
                                                        !.job = job]]
        /\ SetState(job.id, "Claimed")
    /\ ret' = NoCall
    /\ UNCHANGED <<outside, options, nextId, retry, dead, pool,
                   wPayload, fails, calls>>

Claim(s) ==
    /\ pool = "running"
    /\ slot[s].pc = "idle"
    /\ \A t \in Slots : t < s => slot[t].pc # "idle"
    /\ pending # <<>>
    /\ jobOpts.MaxConcurrency = 0 \/ InFlight < jobOpts.MaxConcurrency
    /\ LET job == Head(pending) IN
        /\ pending' = Tail(pending)
        /\ slot' = [slot EXCEPT ![s] = [IdleSlot EXCEPT !.pc = "alloc",
                                                        !.job = job]]
        /\ SetState(job.id, "Claimed")
    /\ ret' = NoCall
    /\ UNCHANGED <<outside, options, nextId, retry, dead, pool,
                   wPayload, fails, calls>>

\* the engine's handling of a failed execution of the envelope in slot s
Failed(s) ==
    LET job == [slot[s].job EXCEPT !.fails = @ + 1] IN
    /\ fails' = [fails EXCEPT ![job.id] = job.fails]
    /\ slot' = [slot EXCEPT ![s] = IdleSlot]
    /\ IF jobOpts.MaxFails - job.fails > 0
       THEN /\ retry' = retry \cup {job}
            /\ dead' = dead
            /\ SetState(job.id, "Requeued")
       ELSE IF jobOpts.SkipDead
       THEN /\ UNCHANGED <<retry, dead>>
            /\ SetState(job.id, "Discarded")
       ELSE /\ dead' = dead \cup {job}
            /\ retry' = retry
            /\ SetState(job.id, "DeadLettered")

\* the engine's handling of a successful execution
Acked(s) ==
    /\ slot' = [slot EXCEPT ![s] = IdleSlot]
    /\ SetState(slot[s].job.id, "Acked")
    /\ UNCHANGED <<retry, dead, fails>>

\* job function, first statements: getContext, w.payload = new(T)
JobAlloc(s) ==
    /\ slot[s].pc = "alloc"
    /\ wPayload' = Ptr(ZeroT)
    /\ slot' = [t \in Slots |->
                  IF t = s THEN [slot[t] EXCEPT !.pc = "deser"]
                  ELSE [slot[t] EXCEPT !.alias = FALSE]]
    /\ ret' = NoCall
    /\ UNCHANGED <<outside, options, nextId, pending,
                   retry, dead, pool, est, fails, calls, trace>>

\* job function: w.deserialize(job.ArgString("payload")), success
JobDeserialize(s) ==
    /\ slot[s].pc = "deser"
    /\ LET r == deserialize(slot[s].job.payload, wPayload) IN
        /\ ~r.err
        /\ wPayload' = r.ptr
        /\ slot' = [t \in Slots |->
                      IF t = s THEN [slot[t] EXCEPT !.pc = "call"]
                      ELSE IF slot[t].alias
                      THEN (IF r.ptr.nil THEN [slot[t] EXCEPT !.alias = FALSE]
                            ELSE [slot[t] EXCEPT !.arg = r.ptr])
                      ELSE slot[t]]
    /\ ret' = NoCall
    /\ UNCHANGED <<outside, options, nextId, pending,
                   retry, dead, pool, est, fails, calls, trace>>

\* job function: deserialize returns an error, which is returned to the engine
JobDeserializeError_callsHandler(s) ==
    /\ slot[s].pc = "deser"
    /\ deserialize(slot[s].job.payload, wPayload).err
    /\ slot' = [slot EXCEPT ![s] = [@ EXCEPT !.pc = "call"]]
    /\ ret' = NoCall
    /\ UNCHANGED <<outside, options, nextId, pending,
                   retry, dead, pool, wPayload, est, fails, calls, trace>>

JobDeserializeError(s) ==
    /\ slot[s].pc = "deser"
    /\ deserialize(slot[s].job.payload, wPayload).err
    /\ Failed(s)
    /\ ret' = NoCall
    /\ UNCHANGED <<outside, options, nextId, pending,
                   pool, wPayload, calls>>

\* job function: f(ctxWorker, w.payload) is entered
JobCall(s) ==
    /\ slot[s].pc = "call"
    /\ slot' = [slot EXCEPT ![s] = [@ EXCEPT !.pc = "running",
                                             !.arg = wPayload,
                                             !.alias = ~wPayload.nil]]
    /\ calls' = [calls EXCEPT ![slot[s].job.id] = @ + 1]
    /\ ret' = NoCall
    /\ UNCHANGED <<outside, options, nextId, pending,
                   retry, dead, pool, wPayload, est, fails, trace>>

\* MaxTimeout seconds have passed since getContext made the context of the
\* execution in slot s: that context is done
CtxTimeout_sharedContext(s) ==
    /\ slot[s].pc \in {"deser", "call", "running"}
    /\ options.MaxTimeout > 0
    /\ ~slot[s].ctxDone
    /\ slot' = [t \in Slots |->
                  IF slot[t].pc \in {"deser", "call", "running"}
                  THEN [slot[t] EXCEPT !.ctxDone = TRUE] ELSE slot[t]]
    /\ ret' = NoCall
    /\ UNCHANGED <<outside, options, nextId, pending,
                   retry, dead, pool, wPayload, est, fails, calls, trace>>

CtxTimeout(s) ==
    /\ slot[s].pc \in {"deser", "call", "running"}
    /\ options.MaxTimeout > 0
    /\ ~slot[s].ctxDone
    /\ slot' = [slot EXCEPT ![s] = [@ EXCEPT !.ctxDone = TRUE]]
    /\ ret' = NoCall
    /\ UNCHANGED <<outside, options, nextId, pending,
                   retry, dead, pool, wPayload, est, fails, calls, trace>>

\* the handler returns nil
HandlerReturnNil(s) ==
    /\ slot[s].pc = "running"
    /\ Acked(s)
    /\ ret' = NoCall
    /\ UNCHANGED <<outside, options, nextId, pending,
                   pool, wPayload, calls>>

\* the handler returns an error
HandlerReturnErr(s) ==
    /\ slot[s].pc = "running"
    /\ Failed(s)
    /\ ret' = NoCall
    /\ UNCHANGED <<outside, options, nextId, pending,
                   pool, wPayload, calls>>

\* The handler panics.  The job function has no recover: the panic leaves it
\* (the deferred cancel runs) and reaches the engine, which catches it at the
\* slot boundary and handles the execution as a failed one.
HandlerPanic_stopsPool(s) ==
    /\ slot[s].pc = "running"
    /\ Failed(s)
    /\ pool' = "stopped"
    /\ ret' = [NoCall EXCEPT !.op = "panic"]
    /\ UNCHANGED <<outside, options, nextId, pending, wPayload, calls>>

HandlerPanic(s) ==
    /\ slot[s].pc = "running"
    /\ Failed(s)
    /\ ret' = [NoCall EXCEPT !.op = "panic"]
    /\ UNCHANGED <<outside, options, nextId, pending,
                   pool, wPayload, calls>>

\* Worker.Stop is called on a running pool: w.pool.Stop() stops the claiming
\* of envelopes and waits
Stop ==
    /\ pool = "running"
    /\ pool' = "stopping"
    /\ ret' = NoCall
    /\ UNCHANGED <<outside, options, nextId, pending,
                   retry, dead, slot, wPayload, est, fails, calls, trace>>

\* w.pool.Stop() returns, and Worker.Stop with it: no execution is in flight
StopReturn_noWait ==
    /\ pool = "stopping"
    /\ pool' = "stopped"
    /\ ret' = [NoCall EXCEPT !.op = "Stop"]
    /\ UNCHANGED <<outside, options, nextId, pending,
                   retry, dead, slot, wPayload, est, fails, calls, trace>>

StopReturn ==
    /\ pool = "stopping"
    /\ \A s \in Slots : slot[s].pc = "idle"
    /\ pool' = "stopped"
    /\ ret' = [NoCall EXCEPT !.op = "Stop"]
    /\ UNCHANGED <<outside, options, nextId, pending,
                   retry, dead, slot, wPayload, est, fails, calls, trace>>

\* Worker.Stop is called on a pool that is stopped: w.pool.Stop() returns at
\* once
StopAgain_restarts ==
    /\ pool = "stopped"
    /\ pool' = "running"
    /\ ret' = [NoCall EXCEPT !.op = "Stop", !.dup = TRUE]
    /\ UNCHANGED <<outside, options, nextId, pending,
                   retry, dead, slot, wPayload, est, fails, calls, trace>>

StopAgain ==
    /\ pool = "stopped"
    /\ ret' = [NoCall EXCEPT !.op = "Stop", !.dup = TRUE]
    /\ UNCHANGED <<outside, options, nextId, pending,
                   retry, dead, pool, slot, wPayload, est, fails, calls, trace>>

\* the engine puts a failed envelope back at the end of the queue
Requeue_fromDead ==
    /\ pool = "running"
    /\ \E job \in retry \cup dead :
        /\ retry' = retry \ {job}
        /\ dead' = dead \ {job}
        /\ pending' = Append(pending, job)
        /\ SetState(job.id, "Pending")
    /\ ret' = NoCall
    /\ UNCHANGED <<outside, options, nextId, pool,
                   slot, wPayload, fails, calls>>

Requeue_dropped ==
    /\ pool = "running"
    /\ \E job \in retry :
        /\ retry' = retry \ {job}
    /\ ret' = NoCall
    /\ UNCHANGED <<outside, options, nextId, pending, dead, pool,
                   slot, wPayload, est, fails, calls, trace>>

Requeue ==
    /\ pool = "running"
    /\ \E job \in retry :
        /\ retry' = retry \ {job}
        /\ pending' = Append(pending, job)
        /\ SetState(job.id, "Pending")
    /\ ret' = NoCall
    /\ UNCHANGED <<outside, options, nextId, dead, pool,
                   slot, wPayload, fails, calls>>

Next ==
    \/ \E d \in DataInputs : Dispatch(d)
    \/ \E d \in UniqueInputs : DispatchUnique(d)
    \/ RunWithContext
    \/ \E s \in Slots : Claim(s)
    \/ \E s \in Slots : JobAlloc(s)
    \/ \E s \in Slots : JobDeserialize(s)
    \/ \E s \in Slots : JobDeserializeError(s)
    \/ \E s \in Slots : JobCall(s)
    \/ \E s \in Slots : CtxTimeout(s)
    \/ \E s \in Slots : HandlerReturnNil(s)
    \/ \E s \in Slots : HandlerReturnErr(s)
    \/ \E s \in Slots : HandlerPanic(s)
    \/ Stop
    \/ StopReturn
    \/ StopAgain
    \/ Requeue

Spec == Init /\ [][Next]_vars

(***************************************************************************)
(* Scheduling.  The goroutines of a running pool are scheduled fairly: a   *)
(* claim, a requeue or a step of the job function that stays possible is   *)
(* taken.  The handler returns, with nil or an error or by a panic.        *)
(***************************************************************************)
JobStep(s) ==
    \/ JobAlloc(s)
    \/ JobDeserialize(s)
    \/ JobDeserializeError(s)
    \/ JobCall(s)
    \/ HandlerReturnNil(s)
    \/ HandlerReturnErr(s)
    \/ HandlerPanic(s)

Fairness ==
    /\ WF_vars(\E s \in Slots : Claim(s))
    /\ WF_vars(Requeue)
    /\ \A s \in 1 .. Min(MaxJobs, maxConcurrent) : WF_vars(JobStep(s))

LiveSpec == Init /\ [][Next]_vars /\ Fairness

(***************************************************************************)
(* A burst: a worker made with WithMaxConcurrency(0), more envelopes       *)
(* dispatched than the pool has goroutines, and handlers that have not     *)
(* returned yet.                                                           *)
(***************************************************************************)
BurstOptionLists ==
    { <<[f |-> "WithMaxConcurrency", n |-> 0]>>,
      <<[f |-> "WithMaxFails", n |-> 1], [f |-> "WithMaxConcurrency", n |-> 0]>> }

BurstInit ==
    /\ QueueInit(BurstOptionLists, BurstJobs)
    /\ OutsideInit

BurstNext ==
    \/ \E d \in UniqueInputs : Dispatch(d)
    \/ RunWithContext
    \/ \E s \in Slots : Claim(s)

SpecBurst == BurstInit /\ [][BurstNext]_vars

(***************************************************************************)
(* A worker made with any list of at most MaxOps option functions, and     *)
(* envelopes whose handler fails or succeeds.                              *)
(***************************************************************************)
RECURSIVE ListsUpTo(_)
ListsUpTo(n) ==
    IF n = 0 THEN { <<>> }
    ELSE ListsUpTo(n - 1) \cup
         { Append(l, f) : l \in { k \in ListsUpTo(n - 1) : Len(k) = n - 1 },
                          f \in OptionFns }

OptionsInit ==
    /\ QueueInit(ListsUpTo(MaxOps), OptJobs)
    /\ OutsideInit

OptionsNext ==
    \/ \E d \in UniqueInputs : Dispatch(d)
    \/ RunWithContext
    \/ \E s \in Slots : Claim(s)
    \/ \E s \in Slots : JobAlloc(s)
    \/ \E s \in Slots : JobDeserialize(s)
    \/ \E s \in Slots : JobCall(s)
    \/ \E s \in Slots : CtxTimeout(s)
    \/ \E s \in Slots : HandlerReturnNil(s)
    \/ \E s \in Slots : HandlerReturnErr(s)
    \/ Requeue

SpecOptions == OptionsInit /\ [][OptionsNext]_vars

(***************************************************************************)
(* Package redis: NewClientRedis, and instancePool of package queue.  Both *)
(* build a process-wide instance inside a sync.Once.                       *)
(*                                                                         *)
(* sync.Once.Do(f): if done is set, return; otherwise lock the mutex, and  *)
(* if done is still unset run f and set done when f returns or panics      *)
(* (deferred), then unlock.                                                *)
(***************************************************************************)
\* a worker and a queue on which nothing happens
QueueIdle == QueueInit({ <<>> }, 1)

\* nothing has been called in any package
IdleInit == QueueIdle /\ OutsideInit

\* the arguments of NewClientRedis: none (the environment is read), a nil
\* *Options, or one of two Options values
RedisArgs == {"none", "nil", "localhost:6379", "different:6380"}

\* opts as NewClientRedis resolves it before redisOnce.Do
ResolveOpts(arg) == IF arg = "none" THEN "env" ELSE arg

\* NewClientRedis(arg) is called: opts is resolved
NewClientRedis(p, arg) ==
    /\ rproc[p].pc = "idle"
    /\ rproc[p].n < MaxCalls
    /\ rproc' = [rproc EXCEPT ![p] = [pc |-> "once", k |-> "redis",
                                      opts |-> ResolveOpts(arg), n |-> @.n + 1]]
    /\ UNCHANGED <<notRedis, once, instance, built, returned>>

\* instancePool() is called
instancePool(p) ==
    /\ rproc[p].pc = "idle"
    /\ rproc[p].n < MaxCalls
    /\ rproc' = [rproc EXCEPT ![p] = [pc |-> "once", k |-> "queue",
                                      opts |-> "env", n |-> @.n + 1]]
    /\ UNCHANGED <<notRedis, once, instance, built, returned>>

\* Once.Do: the fast path reads done
OnceCheck(p) ==
    /\ rproc[p].pc = "once"
    /\ rproc' = [rproc EXCEPT ![p].pc =
                    IF once[rproc[p].k].done THEN "ret" ELSE "slow"]
    /\ UNCHANGED <<notRedis, once, instance, built, returned>>

\* Once.doSlow: the mutex is locked
OnceLock(p) ==
    /\ rproc[p].pc = "slow"
    /\ once[rproc[p].k].m = 0
    /\ once' = [once EXCEPT ![rproc[p].k].m = p]
    /\ rproc' = [rproc EXCEPT ![p].pc = "locked"]
    /\ UNCHANGED <<notRedis, instance, built, returned>>

\* Once.doSlow under the mutex: f runs unless done is set.  f dereferences
\* opts: with a nil opts it panics, the panic leaves NewClientRedis and the
\* goroutine goes on after recovering it.
OnceDo(p) ==
    LET k == rproc[p].k IN
    /\ rproc[p].pc = "locked"
    /\ IF once[k].done
       THEN /\ once' = [once EXCEPT ![k].m = 0]
            /\ rproc' = [rproc EXCEPT ![p].pc = "ret"]
            /\ UNCHANGED <<instance, built>>
       ELSE IF rproc[p].opts = "nil"
       THEN /\ once' = [once EXCEPT ![k] = [done |-> TRUE, m |-> 0]]
            /\ rproc' = [rproc EXCEPT ![p].pc = "idle"]
            /\ UNCHANGED <<instance, built>>
       ELSE /\ instance' = [instance EXCEPT
                               ![k] = [nil |-> FALSE, id |-> Len(built) + 1]]
            /\ built' = Append(built, [k |-> k, cfg |-> rproc[p].opts])
            /\ once' = [once EXCEPT ![k] = [done |-> TRUE, m |-> 0]]
            /\ rproc' = [rproc EXCEPT ![p].pc = "ret"]
    /\ UNCHANGED <<notRedis, returned>>

\* return instanceRedis / return redisPool
RedisReturn(p) ==
    /\ rproc[p].pc = "ret"
    /\ returned' = returned \cup
                      {[k |-> rproc[p].k, opts |-> rproc[p].opts,
                        val |-> instance[rproc[p].k]]}
    /\ rproc' = [rproc EXCEPT ![p].pc = "idle"]
    /\ UNCHANGED <<notRedis, once, instance, built>>

RedisNext ==
    \/ \E p \in DOMAIN rproc, arg \in RedisArgs : NewClientRedis(p, arg)
    \/ \E p \in DOMAIN rproc : instancePool(p)
    \/ \E p \in DOMAIN rproc : OnceCheck(p)
    \/ \E p \in DOMAIN rproc : OnceLock(p)
    \/ \E p \in DOMAIN rproc : OnceDo(p)
    \/ \E p \in DOMAIN rproc : RedisReturn(p)

SpecRedis ==
    IdleInit /\ [][RedisNext]_redisVars

(***************************************************************************)
(* Package observer: Subscribe and Notify on the global subject.           *)
(*                                                                         *)
(* Subscribe is a read of the map entry, an append and a write of the map  *)
(* entry, with no lock: two goroutines in it at once race.  The Go runtime *)
(* may detect two concurrent map writes and end the process.               *)
(***************************************************************************)
\* the Subscribe calls made so far
SubscribeCalls ==
    LET Sum[S \in SUBSET (Topics \X ObserverKinds)] ==
            IF S = {} THEN 0
            ELSE LET x == CHOOSE y \in S : TRUE
                 IN  subscribed[x] + Sum[S \ {x}]
    IN  Sum[Topics \X ObserverKinds]
        + Cardinality({p \in DOMAIN sproc : sproc[p].pc = "write"})

\* Subscribe(topic, observer): subject.observers[topic] is read
SubscribeRead(p, topic, obs) ==
    /\ crashed = "no"
    /\ sproc[p].pc = "idle"
    /\ SubscribeCalls < MaxSubs
    /\ sproc' = [sproc EXCEPT ![p] = [pc |-> "write", topic |-> topic,
                                      obs |-> obs, read |-> observers[topic]]]
    /\ UNCHANGED <<notObserver, observers, subscribed, notifier, tasks, crashed>>

\* Subscribe: the appended list is written to subject.observers[topic]
SubscribeWrite(p) ==
    /\ crashed = "no"
    /\ sproc[p].pc = "write"
    /\ observers' = [observers EXCEPT
                        ![sproc[p].topic] = Append(sproc[p].read, sproc[p].obs)]
    /\ subscribed' = [subscribed EXCEPT ![sproc[p].topic, sproc[p].obs] = @ + 1]
    /\ sproc' = [sproc EXCEPT ![p] = [pc |-> "idle", topic |-> "", obs |-> "",
                                      read |-> <<>>]]
    /\ UNCHANGED <<notObserver, notifier, tasks, crashed>>

\* two goroutines write the map at once and the runtime notices:
\* "fatal error: concurrent map writes"
SubscribeFatal(p) ==
    /\ crashed = "no"
    /\ sproc[p].pc = "write"
    /\ \E q \in DOMAIN sproc : q # p /\ sproc[q].pc = "write"
    /\ crashed' = "concurrent map writes"
    /\ UNCHANGED <<notObserver, observers, sproc, subscribed, notifier, tasks>>

\* Notify(topic, data): subject.observers[topic] is looked up; with no entry,
\* or an empty one, Notify returns
Notify(topic) ==
    /\ crashed = "no"
    /\ notifier.pc = "idle"
    /\ notifier.n < MaxNotify
    /\ notifier' = [pc |-> IF observers[topic] = <<>> THEN "idle" ELSE "loop",
                    topic |-> topic, list |-> observers[topic], i |-> 1,
                    first |-> Len(tasks) + 1, n |-> notifier.n + 1]
    /\ UNCHANGED <<notObserver, observers, sproc, subscribed, tasks, crashed>>

\* Notify, one iteration of the loop: go func(observer Observer) {...}(observer)
NotifyGo_lastObserver ==
    /\ crashed = "no"
    /\ notifier.pc = "loop"
    /\ notifier.i <= Len(notifier.list)
    /\ tasks' = Append(tasks, [topic |-> notifier.topic,
                               obs |-> notifier.list[Len(notifier.list)],
                               call |-> notifier.n, st |-> "started"])
    /\ notifier' = [notifier EXCEPT !.i = @ + 1]
    /\ UNCHANGED <<notObserver, observers, sproc, subscribed, crashed>>

NotifyGo ==
    /\ crashed = "no"
    /\ notifier.pc = "loop"
    /\ notifier.i <= Len(notifier.list)
    /\ tasks' = Append(tasks, [topic |-> notifier.topic,
                               obs |-> notifier.list[notifier.i],
                               call |-> notifier.n, st |-> "started"])
    /\ notifier' = [notifier EXCEPT !.i = @ + 1]
    /\ UNCHANGED <<notObserver, observers, sproc, subscribed, crashed>>

\* Notify returns after the loop
NotifyReturn ==
    /\ crashed = "no"
    /\ notifier.pc = "loop"
    /\ notifier.i > Len(notifier.list)
    /\ notifier' = [notifier EXCEPT !.pc = "idle"]
    /\ UNCHANGED <<notObserver, observers, sproc, subscribed, tasks, crashed>>

\* A goroutine started by Notify runs observer.Handle(topic, data).  A panic
\* of Handle is recovered by the deferred function, which then logs it with
\* observer.Name(): a panic of Name is recovered by nothing.
TaskHandle(t) ==
    /\ crashed = "no"
    /\ tasks[t].st = "started"
    /\ CASE tasks[t].obs = "ok" ->
               /\ tasks' = [tasks EXCEPT ![t].st = "handled"]
               /\ crashed' = crashed
         [] tasks[t].obs = "panics" ->
               /\ tasks' = [tasks EXCEPT ![t].st = "recovered"]
               /\ crashed' = crashed
         [] tasks[t].obs = "nilptr" ->
               /\ tasks' = [tasks EXCEPT ![t].st = "panicked"]
               /\ crashed' = "panic"
    /\ UNCHANGED <<notObserver, observers, sproc, subscribed, notifier>>

ObserverNext ==
    \/ \E p \in DOMAIN sproc, topic \in Topics, obs \in ObserverKinds :
           SubscribeRead(p, topic, obs)
    \/ \E p \in DOMAIN sproc : SubscribeWrite(p)
    \/ \E p \in DOMAIN sproc : SubscribeFatal(p)
    \/ \E topic \in Topics : Notify(topic)
    \/ NotifyGo
    \/ NotifyReturn
    \/ \E t \in DOMAIN tasks : TaskHandle(t)

SpecObserver ==
    IdleInit /\ [][ObserverNext]_observerVars

(***************************************************************************)
(* Package translate/google: Translator.TranslateText.                     *)
(*                                                                         *)
(* translateTextOnce is one step whose result is the server's: a           *)
(* translation or an error; the request of a context that is done fails.   *)
(* The select of the wait is committed by the first of its two channels    *)
(* that becomes ready: the timer is created when the select starts, so a   *)
(* context that is done by then, or becomes done before the timer fires,   *)
(* takes the first case.  Durations are in seconds.                        *)
(***************************************************************************)
NilOptions == [nil |-> TRUE, Text |-> "", MaxRetries |-> 0, RetryDelay |-> 0]

\* the *TranslatorOptions given to TranslateText
TranslateInputs ==
    {NilOptions} \cup
    [nil : {FALSE}, Text : {"", "hello"}, MaxRetries : -1 .. MaxRetry,
     RetryDelay : {0, 2}]

normalizeRetries_keepsNegative(m) == m

\* maxRetries as TranslateText normalizes it
normalizeRetries(m) == IF m < 0 THEN 0 ELSE m

\* retryDelay as TranslateText normalizes it
normalizeDelay(d) == IF d <= 0 THEN 1 ELSE d

TranslateReturn(c, result, err) ==
    [c EXCEPT !.pc = "done", !.result = result, !.err = err]

\* the call, up to the first test of the loop
TranslateText(o) ==
    /\ tcall.pc = "idle"
    /\ tcall' =
          IF o.nil
          THEN TranslateReturn([tcall EXCEPT !.options = o], "",
                               "options cannot be nil")
          ELSE IF o.Text = ""
          THEN TranslateReturn([tcall EXCEPT !.options = o], "", "")
          ELSE [tcall EXCEPT !.options = o,
                             !.maxRetries = normalizeRetries(o.MaxRetries),
                             !.retryDelay = normalizeDelay(o.RetryDelay),
                             !.attempt = 0,
                             !.pc = "loop"]
    /\ UNCHANGED <<notTranslate, tctx>>

\* the test of the for loop, and the return after the loop
TranslateLoop ==
    /\ tcall.pc = "loop"
    /\ tcall' =
          IF tcall.attempt <= tcall.maxRetries
          THEN [tcall EXCEPT !.pc = "attempt"]
          ELSE TranslateReturn(tcall, "", "translation failed")
    /\ UNCHANGED <<notTranslate, tctx>>

\* one attempt and what follows it in the body of the loop
translateTextOnce(outcome) ==
    /\ tcall.pc = "attempt"
    /\ outcome = "ok" => ~tctx.done
    /\ LET c == [tcall EXCEPT !.outcomes = Append(@, outcome)]
       IN  tcall' =
             IF outcome = "ok"
             THEN TranslateReturn(c, "translated", "")
             ELSE IF tcall.attempt < tcall.maxRetries
             THEN [c EXCEPT !.lastErr = outcome, !.pc = "wait"]
             ELSE [c EXCEPT !.lastErr = outcome, !.attempt = @ + 1,
                            !.pc = "loop"]
    /\ UNCHANGED <<notTranslate, tctx>>

\* case <-ctx.Done()
WaitCtxDone ==
    /\ tcall.pc = "wait"
    /\ tctx.done
    /\ tcall' = TranslateReturn(tcall, "", "context canceled")
    /\ UNCHANGED <<notTranslate, tctx>>

\* case <-time.After(retryDelay)
WaitTimer ==
    /\ tcall.pc = "wait"
    /\ ~tctx.done
    /\ tcall' = [tcall EXCEPT !.attempt = @ + 1, !.pc = "loop"]
    /\ UNCHANGED <<notTranslate, tctx>>

\* the caller cancels the context, or its deadline passes
CtxCancel ==
    /\ ~tctx.done
    /\ tcall.pc # "done"
    /\ tctx' = [done |-> TRUE, inWait |-> tcall.pc = "wait",
                made |-> Len(tcall.outcomes)]
    /\ UNCHANGED <<notTranslate, tcall>>

TranslateNext ==
    \/ \E o \in TranslateInputs : TranslateText(o)
    \/ TranslateLoop
    \/ \E outcome \in {"ok", "err"} : translateTextOnce(outcome)
    \/ WaitCtxDone
    \/ WaitTimer
    \/ CtxCancel

SpecTranslate ==
    IdleInit /\ [][TranslateNext]_translateVars

(***************************************************************************)
(* Package https: Do, and the round-robin proxy provider it asks for a     *)
(* proxy host.                                                             *)
(*                                                                         *)
(* fastHttpClient.Do is one step whose result is the network's: a failure, *)
(* or a response with a status code and a body.  The int32 counter of the  *)
(* provider keeps its width.                                               *)
(***************************************************************************)
\* x + 1 in int32
Add32(x) == IF x = Int32Max THEN Int32Min ELSE x + 1

\* a % n in Go, for n > 0: the remainder has the sign of a
Rem(a, n) ==
    LET m == a % n
    IN  IF a < 0 /\ m # 0 THEN m - n ELSE m

\* the options of a Do call: with or without WithGoProxyProvider, with a
\* JSON request body that can or cannot be marshalled, with or without
\* WithJSONRespTo
DoOptions ==
    [proxy : BOOLEAN, jsonReq : {"none", "bad"}, jsonResp : BOOLEAN]

\* what fastHttpClient.Do comes back with
Responses ==
    {NoResponse} \cup
    [failed : {FALSE}, status : {StatusOK, 204, StatusMultipleChoices, 301,
                                 500},
     body : {"json", "garbage"}]

\* Do, up to the call of GetProxy
Do(p, cfg) ==
    /\ hproc[p].pc = "idle"
    /\ dos < MaxGets
    /\ dos' = dos + 1
    /\ hproc' = [hproc EXCEPT ![p] =
                    [IdleDo EXCEPT !.cfg = cfg,
                                   !.pc = IF cfg.proxy THEN "add"
                                          ELSE "request"]]
    /\ UNCHANGED <<notHttps, provider, expected, faulted>>

\* GetProxy: id := atomic.AddInt32(&p.index, 1)
GetProxyAdd(p) ==
    /\ hproc[p].pc = "add"
    /\ provider' = [provider EXCEPT !.index = Add32(@)]
    /\ expected' = (expected + 1) % Len(provider.hosts)
    /\ hproc' = [hproc EXCEPT ![p].id = provider'.index,
                              ![p].want = expected,
                              ![p].pc = "index"]
    /\ UNCHANGED <<notHttps, dos, faulted>>

\* GetProxy: return p.hosts[id%int32(len(p.hosts))], p.secret
GetProxyIndex(p) ==
    /\ hproc[p].pc = "index"
    /\ LET i == Rem(hproc[p].id, Len(provider.hosts))
       IN  IF i \in 0 .. Len(provider.hosts) - 1
           THEN /\ hproc' = [hproc EXCEPT ![p].got = TRUE,
                                          ![p].host = provider.hosts[i + 1],
                                          ![p].secret = provider.secret,
                                          ![p].pc = "request"]
                /\ UNCHANGED faulted
           ELSE /\ hproc' = [hproc EXCEPT ![p].pc = "panicked"]
                /\ faulted' = TRUE
    /\ UNCHANGED <<notHttps, provider, expected, dos>>

\* the error Do returns for a response
DoError(cfg, resp) ==
    IF cfg.jsonReq = "bad" THEN "failed to marshal JSON request"
    ELSE IF resp.failed THEN "failed to execute HTTP request"
    ELSE IF resp.status > StatusMultipleChoices THEN "ErrorStatusNotOK"
    ELSE IF cfg.jsonResp /\ resp.body # "json"
    THEN "failed to unmarshal response body"
    ELSE ""

\* Do, from the building of the request to the return
DoRequest(p, resp) ==
    /\ hproc[p].pc = "request"
    /\ hproc[p].cfg.jsonReq = "bad" => resp = NoResponse
    /\ hproc' = [hproc EXCEPT ![p].resp = resp,
                              ![p].err = DoError(hproc[p].cfg, resp),
                              ![p].returned = TRUE,
                              ![p].pc = "idle"]
    /\ UNCHANGED <<notHttps, provider, expected, dos, faulted>>

HttpsNext ==
    \/ \E p \in DOMAIN hproc, cfg \in DoOptions : Do(p, cfg)
    \/ \E p \in DOMAIN hproc : GetProxyAdd(p)
    \/ \E p \in DOMAIN hproc : GetProxyIndex(p)
    \/ \E p \in DOMAIN hproc, resp \in Responses : DoRequest(p, resp)

\* a provider, and nothing called in the other packages
HttpsSpecInit ==
    /\ QueueIdle
    /\ RedisInit
    /\ ObserverInit
    /\ TranslateInit
    /\ HttpsInit
    /\ HealthzInitWith({0}, {"open"})

SpecHttps ==
    HttpsSpecInit /\ [][HttpsNext]_httpsVars

(***************************************************************************)
(* Package healthz: RunServer and runCatchPanic.                           *)
(*                                                                         *)
(* A check function is user code: each run of it returns nil, returns an   *)
(* error or panics.  The two writes and the close of the 503 branch are    *)
(* one step, as are the write and the close of the 200.  A write or a      *)
(* close on a connection that is closed already fails and is counted.      *)
(***************************************************************************)
CheckOutcomes == {"nil", "error", "panic"}

\* the error runCatchPanic returns for a run of f
runCatchPanic(outcome) ==
    CASE outcome = "nil" -> ""
      [] outcome = "error" -> "unhealthy"
      [] outcome = "panic" -> "panic: unhealthy"

NewConn == [written |-> <<>>, closed |-> FALSE, late |-> 0, ran |-> 0,
            failed |-> FALSE, ranAfter |-> 0]

\* conn.Write of a response with the status, then conn.Close
WriteAndClose(c, status) ==
    IF c.closed
    THEN [c EXCEPT !.late = @ + 1]
    ELSE [c EXCEPT !.written = Append(@, status), !.closed = TRUE]

\* the signal goroutine: killed = true
SignalKill ==
    /\ ~killed
    /\ killed' = TRUE
    /\ UNCHANGED <<notHealthz, checkFuncs, listener, server, conns>>

\* the signal goroutine: listener.Close()
SignalClose ==
    /\ killed
    /\ listener = "open"
    /\ listener' = "closed"
    /\ UNCHANGED <<notHealthz, checkFuncs, killed, server, conns>>

\* listener.AcceptTCP() returns a connection
AcceptTCP ==
    /\ server.pc = "accept"
    /\ listener = "open"
    /\ Len(conns) < MaxConns
    /\ conns' = Append(conns, NewConn)
    /\ server' = [pc |-> "checks", conn |-> Len(conns) + 1, i |-> 1]
    /\ UNCHANGED <<notHealthz, checkFuncs, listener, killed>>

\* listener.AcceptTCP() returns an error: return when killed, break otherwise
AcceptError ==
    /\ server.pc = "accept"
    /\ listener # "open"
    /\ server' = [server EXCEPT !.pc = IF killed THEN "returned" ELSE "broke"]
    /\ UNCHANGED <<notHealthz, checkFuncs, listener, killed, conns>>

\* one iteration of for _, f := range checkFuncs
RunCheck(outcome) ==
    /\ server.pc = "checks"
    /\ server.i <= checkFuncs
    /\ LET c == conns[server.conn]
           ran == [c EXCEPT !.ran = @ + 1,
                            !.ranAfter = IF c.written # <<>> THEN @ + 1
                                         ELSE @]
       IN  conns' = [conns EXCEPT ![server.conn] =
                       IF runCatchPanic(outcome) # ""
                       THEN WriteAndClose([ran EXCEPT !.failed = TRUE], 503)
                       ELSE ran]
    /\ server' = [server EXCEPT !.i = @ + 1]
    /\ UNCHANGED <<notHealthz, checkFuncs, listener, killed>>

\* after the loop over checkFuncs: conn.Write(resOKBuf), conn.Close()
WriteOK ==
    /\ server.pc = "checks"
    /\ server.i > checkFuncs
    /\ conns' = [conns EXCEPT ![server.conn] = WriteAndClose(@, StatusOK)]
    /\ server' = [server EXCEPT !.pc = "accept"]
    /\ UNCHANGED <<notHealthz, checkFuncs, listener, killed>>

HealthzNext ==
    \/ SignalKill
    \/ SignalClose
    \/ AcceptTCP
    \/ AcceptError
    \/ \E outcome \in CheckOutcomes : RunCheck(outcome)
    \/ WriteOK

\* a server, and nothing called in the other packages
HealthzSpecInit ==
    /\ QueueIdle
    /\ RedisInit
    /\ ObserverInit
    /\ TranslateInit
    /\ HttpsInitWith({<<"h1">>}, {-1})
    /\ HealthzInit

SpecHealthz ==
    HealthzSpecInit /\ [][HealthzNext]_healthzVars

(***************************************************************************)
(* Properties.                                                             *)
(***************************************************************************)
InPending(e) == \E i \in 1 .. Len(pending) : pending[i].id = e
InRetry(e)   == \E j \in retry : j.id = e
InDead(e)    == \E j \in dead : j.id = e
Holders(e)   == {s \in Slots : slot[s].pc # "idle" /\ slot[s].job.id = e}
EverIn(e, st) == \E i \in 1 .. Len(trace[e]) : trace[e][i] = st

\* C1: every handler invocation receives the payload deserialized from the
\* envelope that its own slot claimed, whatever the other slots of the worker
\* are doing.
C1_HandlerGetsOwnPayload ==
    \A s \in Slots :
        slot[s].pc = "running" =>
            slot[s].arg = Unmarshal(slot[s].job.payload, Ptr(ZeroT)).ptr

C3_FailsWithinMaxFails ==
    \A e \in JobIds :
        /\ fails[e] <= options.MaxFails
        /\ calls[e] <= options.MaxFails

C3_BudgetExhausted ==
    \E e \in JobIds :
        /\ est[e] = "DeadLettered"
        /\ fails[e] = options.MaxFails
        /\ calls[e] = options.MaxFails

\* C4: an envelope whose failCount has reached maxFails is not requeued: it is
\* in the dead-letter area if skipDeadLetter is false, and in no collection at
\* all if skipDeadLetter is true.
C4_TerminalAtMaxFails ==
    \A e \in JobIds :
        fails[e] >= options.MaxFails =>
            /\ ~InPending(e) /\ ~InRetry(e) /\ Holders(e) = {}
            /\ IF options.SkipDead
               THEN est[e] = "Discarded" /\ ~InDead(e)
               ELSE est[e] = "DeadLettered" /\ InDead(e)

C4_Discarded ==
    \E e \in JobIds :
        /\ options.SkipDead
        /\ fails[e] = options.MaxFails
        /\ est[e] = "Discarded"
        /\ EverIn(e, "Requeued")

\* the states of an envelope whose executions all fail, with maxFails = n
RECURSIVE AlwaysFailingTrace(_)
AlwaysFailingTrace(n) ==
    IF n <= 1 THEN <<"Pending", "Claimed", "DeadLettered">>
    ELSE <<"Pending", "Claimed", "Requeued">> \o AlwaysFailingTrace(n - 1)

\* C5: with maxFails = n, an envelope every execution of which fails in the
\* handler is handled exactly n times and goes through Pending, Claimed,
\* Requeued (n - 1 times) and then Pending, Claimed, DeadLettered.
C5_AlwaysFailing ==
    \A j \in dead :
        /\ trace[j.id] = AlwaysFailingTrace(options.MaxFails)
        /\ ~Unmarshal(j.payload, Ptr(ZeroT)).err => calls[j.id] = options.MaxFails

C5_TwoFailures ==
    \E j \in dead :
        /\ options.MaxFails = 2
        /\ ~Unmarshal(j.payload, Ptr(ZeroT)).err
        /\ calls[j.id] = 2
        /\ trace[j.id] = <<"Pending", "Claimed", "Requeued",
                           "Pending", "Claimed", "DeadLettered">>

\* C6: when one envelope has been dispatched, its handler receives the value
\* whose serialization the dispatcher stored; once the handler has returned
\* nil the envelope is Acked for good, it is in no collection and in no slot,
\* and nothing is left pending.
C6_DispatchThenAck ==
    /\ \A s \in Slots :
          nextId = 2 /\ slot[s].pc = "running" =>
              serialize(slot[s].arg) = slot[s].job.payload
    /\ \A e \in JobIds :
          EverIn(e, "Acked") =>
              /\ est[e] = "Acked" /\ trace[e][Len(trace[e])] = "Acked"
              /\ ~InPending(e) /\ ~InRetry(e) /\ ~InDead(e) /\ Holders(e) = {}
    /\ nextId = 2 /\ est[1] = "Acked" => pending = <<>>

C6_Acked ==
    /\ nextId = 2
    /\ est[1] = "Acked"
    /\ calls[1] = 1
    /\ pending = <<>>

\* the envelopes dispatched with DispatchUnique under the key that are still
\* pending (an envelope that was claimed and is pending again has failed)
UniquePending(q, text) ==
    {i \in 1 .. Len(q) : q[i].unique /\ q[i].payload = text /\ q[i].fails = 0}

\* C7: a DispatchUnique call made while an envelope dispatched with the same
\* key is pending returns nil and leaves the queue as it is, with one pending
\* envelope of that key.
C7_UniqueIdempotent ==
    [][(ret'.op = "DispatchUnique" /\ UniquePending(pending, ret'.key) # {}) =>
          /\ ~ret'.err
          /\ pending' = pending
          /\ Cardinality(UniquePending(pending', ret'.key)) = 1]_vars

C7_DuplicateSuppressed ==
    /\ ret.op = "DispatchUnique"
    /\ ret.dup
    /\ ~ret.err
    /\ Cardinality(UniquePending(pending, ret.key)) = 1

\* C8: every successful Dispatch call appends one new envelope to the pending
\* collection, whatever is pending already.
C8_DispatchAlwaysAdds ==
    [][(ret'.op = "Dispatch" /\ ~ret'.err) =>
          /\ Len(pending') = Len(pending) + 1
          /\ SubSeq(pending', 1, Len(pending)) = pending
          /\ pending'[Len(pending')].payload = ret'.key
          /\ ~InPending(pending'[Len(pending')].id)]_vars

C8_IdenticalPending ==
    /\ ret.op = "Dispatch"
    /\ Len(pending) = 2
    /\ pending[1].unique
    /\ pending[1].payload = pending[2].payload

\* The dispatcher hands the engine nothing but the payload, so the priority
\* that a producer gives an envelope travels in the payload.
PriorityOf(job) == Unmarshal(job.payload, NilPtr).ptr.val.id

C10_TimeoutCountsAsFailure ==
    [][\A s \in Slots :
          (slot[s].pc = "running" /\ slot[s].ctxDone /\ slot'[s].pc # "running") =>
              fails'[slot[s].job.id] = fails[slot[s].job.id] + 1]_vars

\* C11: the context of an execution becomes done before the handler returns
\* only when MaxTimeout > 0 and the deadline of that execution has passed; the
\* contexts of the other executions in flight stay as they are.
C11_TimeoutIsolated ==
    [][\A s \in Slots :
          (~slot[s].ctxDone /\ slot'[s].ctxDone) =>
              /\ options.MaxTimeout > 0
              /\ slot[s].pc \in {"deser", "call", "running"}
              /\ slot'[s].job = slot[s].job
              /\ \A t \in Slots \ {s} : slot'[t] = slot[t]]_vars

C11_SiblingNotCancelled ==
    \E s, t \in Slots :
        /\ s # t
        /\ slot[s].pc = "running" /\ slot[s].ctxDone
        /\ slot[t].pc = "running" /\ ~slot[t].ctxDone

\* C12: a handler that panics costs its envelope exactly one failure; the
\* pool stays as it is, the other executions in flight are not touched, and
\* the slot is free for the next envelope.
C12_PanicContained ==
    [][ret'.op = "panic" =>
          \E s \in Slots :
              /\ slot[s].pc = "running"
              /\ slot'[s].pc = "idle"
              /\ fails' = [fails EXCEPT ![slot[s].job.id] = @ + 1]
              /\ \A t \in Slots \ {s} : slot'[t] = slot[t]
              /\ pool' = pool
              /\ pending' = pending]_vars

C12_ClaimableAfterPanic ==
    /\ ret.op = "panic"
    /\ pool = "running"
    /\ pending # <<>>
    /\ ENABLED (\E s \in Slots : Claim(s))

\* C13: when the payload of a claimed envelope does not deserialize, the
\* execution ends without a handler invocation and is counted as one failure:
\* the envelope is requeued, or dead-lettered or discarded at maxFails.
C13_DeserializeFailure ==
    [][\A s \in Slots :
          ( /\ slot[s].pc = "deser"
            /\ Unmarshal(slot[s].job.payload, wPayload).err
            /\ slot'[s].pc # "deser" ) =>
              LET e == slot[s].job.id IN
              /\ slot'[s].pc = "idle"
              /\ calls' = calls
              /\ fails'[e] = fails[e] + 1
              /\ est'[e] = IF fails'[e] < options.MaxFails THEN "Requeued"
                            ELSE IF options.SkipDead THEN "Discarded"
                            ELSE "DeadLettered"]_vars

C13_NeverHandled ==
    \E j \in dead :
        /\ Unmarshal(j.payload, Ptr(ZeroT)).err
        /\ est[j.id] = "DeadLettered"
        /\ fails[j.id] = options.MaxFails
        /\ calls[j.id] = 0

\* C14: a Dispatch or DispatchUnique call whose payload cannot be serialized
\* returns an error and adds no envelope.
C14_SerializeErrorFails ==
    [][( /\ ret'.op \in {"Dispatch", "DispatchUnique"}
         /\ \E d \in DataInputs \cup UniqueInputs :
                Marshal(d).err /\ serialize(d) = ret'.key ) =>
              /\ ret'.err
              /\ pending' = pending]_vars

\* C15: with MaxConcurrency = m > 0, at most m envelopes are in flight.
C15_MaxConcurrency ==
    options.MaxConcurrency > 0 => InFlight <= options.MaxConcurrency

C15_AtLimit ==
    /\ options.MaxConcurrency = 1
    /\ pool = "running"
    /\ InFlight = 1
    /\ pending # <<>>

\* C17: once Stop is called no envelope is claimed; the executions in flight
\* end with their own outcome; Stop returns with every slot idle, and no
\* handler is invoked afterwards.
C17_GracefulStop ==
    [][/\ pool \in {"stopping", "stopped"} =>
              \A s \in Slots :
                  /\ slot[s].pc = "idle" => slot'[s].pc = "idle"
                  /\ (slot[s].pc # "idle" /\ slot'[s].pc = "idle") =>
                         est'[slot[s].job.id] \in
                            {"Acked", "Requeued", "DeadLettered", "Discarded"}
       /\ pool' = "stopped" =>
              /\ \A s \in Slots : slot'[s].pc = "idle"
              /\ pool = "stopped" => calls' = calls]_vars

C17_StoppedAfterDrain ==
    /\ pool = "stopped"
    /\ ret.op = "Stop" /\ ~ret.dup
    /\ pending # <<>>
    /\ \E e \in JobIds : est[e] = "Acked"

\* C18: a Stop call on a stopped pool returns and changes nothing.
C18_StopIdempotent ==
    [][(ret'.op = "Stop" /\ ret'.dup) =>
          UNCHANGED <<outside, options, nextId, pending, retry, dead, pool, slot,
                      wPayload, est, fails, calls, trace>>]_vars

C18_SecondStop ==
    /\ ret.op = "Stop" /\ ret.dup
    /\ pool = "stopped"
    /\ pending # <<>>

Edges ==
    { <<"None", "Pending">>, <<"Pending", "Claimed">>, <<"Claimed", "Acked">>,
      <<"Claimed", "Requeued">>, <<"Requeued", "Pending">>,
      <<"Claimed", "DeadLettered">>, <<"Claimed", "Discarded">> }

\* C19: an envelope changes state along the edges of the state machine only
\* (none leaves Acked, DeadLettered or Discarded), and its failCount changes,
\* by one, only when the slot that holds it takes it out of Claimed.
C19_StateMachine ==
    [][\A e \in JobIds :
          /\ trace'[e] # trace[e] =>
                /\ trace'[e] = Append(trace[e], est'[e])
                /\ <<est[e], est'[e]>> \in Edges
          /\ trace'[e] = trace[e] => est'[e] = est[e]
          /\ fails'[e] # fails[e] =>
                /\ fails'[e] = fails[e] + 1
                /\ est[e] = "Claimed"
                /\ est'[e] \in {"Requeued", "DeadLettered", "Discarded"}
                /\ \E s \in Holders(e) : slot'[s].pc = "idle"]_vars

C19_RetriedThenAcked ==
    \E e \in JobIds :
        trace[e] = <<"Pending", "Claimed", "Requeued",
                     "Pending", "Claimed", "Acked">>

\* C16: with MaxConcurrency = 0 no limit applies to the executions in flight:
\* whatever their number, a pending envelope of a running pool can be claimed.
C16_Unbounded ==
    (options.MaxConcurrency = 0 /\ pool = "running" /\ pending # <<>>) =>
        ENABLED (\E s \in Slots : Claim(s))

\* C20: while the pool is running, every envelope that is Pending, Claimed or
\* Requeued reaches Acked, DeadLettered or Discarded.
C20_EventuallyTerminal ==
    \A e \in 1 .. MaxJobs :
        (est[e] \in {"Pending", "Claimed", "Requeued"} /\ pool = "running")
            ~> (est[e] \in {"Acked", "DeadLettered", "Discarded"}
                \/ pool # "running")

C20_RetriedToTheEnd ==
    /\ pool = "running"
    /\ pending = <<>> /\ retry = {}
    /\ \A e \in JobIds : est[e] \in {"Acked", "DeadLettered", "Discarded"}
    /\ \E e \in JobIds : EverIn(e, "Requeued")

\* the argument of the last option function named f in the list, or the
\* default
LastOf(fns, f, default) ==
    IF \E i \in 1 .. Len(fns) : fns[i].f = f
    THEN fns[CHOOSE i \in 1 .. Len(fns) :
                /\ fns[i].f = f
                /\ \A j \in (i + 1) .. Len(fns) : fns[j].f # f].n
    ELSE default

C23_MaxFailsAtLeastOne ==
    /\ options.MaxFails >= 1
    /\ jobOpts.MaxFails >= 1

\* C21: each connector is constructed at most once, and every call returns
\* that one instance, never nil, whatever arguments it was made with.
C21_Singleton ==
    /\ \A k \in {"redis", "queue"} :
          Cardinality({i \in 1 .. Len(built) : built[i].k = k}) <= 1
    /\ \A r \in returned :
          /\ ~r.val.nil
          /\ r.val = instance[r.k]
          /\ \E i \in 1 .. Len(built) : built[i].k = r.k /\ r.val.id = i

\* the goroutines among ts started by the Notify call number n
TasksOf(ts, n) == SelectSeq(ts, LAMBDA t : t.call = n)

C25_PanicRecovered ==
    crashed # "panic"

\* the number of entries of list l that equal x
CountOf(l, x) == Cardinality({i \in 1 .. Len(l) : l[i] = x})

\* C29: when every Subscribe call has returned, each topic's list holds the
\* observers subscribed to it, once per call.
C29_NoLostSubscription ==
    (\A p \in DOMAIN sproc : sproc[p].pc = "idle") =>
        \A t \in Topics, o \in ObserverKinds :
            CountOf(observers[t], o) =
                subscribed[t, o]

\* max(MaxRetries, 0) + 1
AttemptBudget(o) == (IF o.MaxRetries > 0 THEN o.MaxRetries ELSE 0) + 1

AllFailed(outs) == \A i \in 1 .. Len(outs) : outs[i] = "err"

\* C26: with non-nil options and non-empty text TranslateText makes at most
\* max(MaxRetries, 0) + 1 attempts; a successful attempt is the last one and
\* its result is returned; "translation failed" is returned only after
\* max(MaxRetries, 0) + 1 failed attempts; a context cancelled during the wait
\* between attempts ends the call with the context's error and no further
\* attempt.
C26_RetryLoop ==
    (tcall.pc # "idle" /\ ~tcall.options.nil /\ tcall.options.Text # "") =>
        /\ Len(tcall.outcomes) <= AttemptBudget(tcall.options)
        /\ \A i \in 1 .. Len(tcall.outcomes) :
               tcall.outcomes[i] = "ok" =>
                   /\ i = Len(tcall.outcomes)
                   /\ tcall.pc = "done"
                   /\ tcall.result = "translated" /\ tcall.err = ""
        /\ (tcall.pc = "done" /\ tcall.err = "") =>
               /\ tcall.outcomes # <<>>
               /\ tcall.outcomes[Len(tcall.outcomes)] = "ok"
        /\ (tcall.pc = "done" /\ tcall.err = "translation failed") =>
               /\ Len(tcall.outcomes) = AttemptBudget(tcall.options)
               /\ AllFailed(tcall.outcomes)
        /\ (tctx.done /\ tctx.inWait) =>
               /\ Len(tcall.outcomes) = tctx.made
               /\ tcall.pc \in {"wait", "done"}
               /\ tcall.pc = "done" => tcall.err = "context canceled"

C26_CancelledInSecondWait ==
    /\ tcall.pc = "done"
    /\ tcall.err = "context canceled"
    /\ tctx.inWait
    /\ Len(tcall.outcomes) = 2
    /\ tcall.options.MaxRetries = MaxRetry

\* C27: Do returns a non-nil error whenever the request fails or the status
\* code of the response is not 200, and returns nil only for a response with
\* status code 200.
C27_ErrorUnlessOK ==
    \A p \in DOMAIN hproc :
        hproc[p].returned =>
            /\ (hproc[p].resp.failed \/ hproc[p].resp.status # StatusOK) =>
                   hproc[p].err # ""
            /\ hproc[p].err = "" =>
                   (~hproc[p].resp.failed /\ hproc[p].resp.status = StatusOK)

\* C30: the k-th GetProxy call returns hosts[k mod n] with the configured
\* secret, and no call faults, the wrap of the counter included.
C30_RoundRobin ==
    /\ ~faulted
    /\ \A p \in DOMAIN hproc :
           hproc[p].got =>
               /\ hproc[p].host = provider.hosts[hproc[p].want + 1]
               /\ hproc[p].secret = provider.secret

\* the connections the server has finished with
Served == {c \in DOMAIN conns : server.pc = "checks" => c # server.conn}

\* C28: every accepted connection gets exactly one response and is then
\* closed: a 503 if a check function returned an error or panicked, a 200
\* only if all succeeded; after a 503 no remaining check function is run for
\* the connection, and it is not written to or closed again.
C28_OneResponse ==
    \A c \in DOMAIN conns :
        /\ Len(conns[c].written) <= 1
        /\ c \in Served => (Len(conns[c].written) = 1 /\ conns[c].closed)
        /\ conns[c].written = <<503>> <=>
               (conns[c].failed /\ conns[c].closed)
        /\ conns[c].written = <<StatusOK>> => ~conns[c].failed
        /\ conns[c].ranAfter = 0
        /\ conns[c].late = 0

====
